---- MODULE Spec2Model ----
(***************************************************************************)
(* A model of the asynchronous rotating logger of util/log/logger.go:      *)
(* producers calling the leveled logging functions, callers of Close and   *)
(* of the setters, the bounded channel writerChan, and the backend writer  *)
(* goroutine started by NewLogger with its destination builder.            *)
(***************************************************************************)
EXTENDS Integers, Sequences, FiniteSets, TLC

(***************************************************************************)
(* Program constants                                                       *)
(***************************************************************************)
None == 0
Stdout == 1
Stderr == 2
File == 4

RotateNone == 0
RotateDay == 1
RotateHour == 2
RotateMinute == 3
RotateSize == 4
DefaultRotateType == RotateHour
DefaultRotateSize == 1073741824
DefaultLogDir == "/tmp"

DEBUG == 0
INFO == 1
WARN == 2
ERROR == 3
FATAL == 4
PANIC == 5

gLevelString == <<"DEBUG", "INFO", "WARN", "ERROR", "FATAL", "PANIC">>

fmtLevel == "level"
fmtLTime == "ltime"
fmtTime == "time"
fmtLocation == "location"
fmtMsg == "msg"
gDefaultLogFormat == <<fmtLevel, fmtLTime, fmtLocation, fmtMsg>>

(***************************************************************************)
(* Bounds of the model                                                     *)
(***************************************************************************)
\* Capacity of writerChan. The program makes the channel with 100 slots;
\* the model scales the capacity down so that a full queue is reached.
ChanCap == 2
\* Logging calls and setter calls made over a run of Spec and SpecFault.
MaxCalls == 2
MaxSets == 1
\* Logging calls made over a run of SpecFilter.
FilterCalls == 2
\* Logging calls and setter calls made over a run of SpecConfig.
ConfigCalls == 3
ConfigSets == 3
\* Logging calls made over a run of SpecRotate.
RotateCalls == 3
\* Logging calls made over a run of SpecSize.
SizeCalls == 4
\* Logging calls and SetHandler calls made over a run of SpecHandler.
HandlerCalls == 3
HandlerSets == 2
\* Logging calls made over a run of SpecRestart, and the files an earlier run
\* left in the log directory.
RestartCalls == 3
MaxLeftover == 2
PolicyCalls == 2
NoneCalls == 3
InvalidCalls == 3
InvalidSets == 2
LiveCalls == 3
MaxTokens == 3
FormatCalls == 1
ProbeCalls == 2

Producers == {"p1", "p2"}
Closers == {"c1", "c2"}
Kinds == {Stdout, Stderr, File}
Handlers == 0 .. 7
Levels == DEBUG .. PANIC

\* h & bit == bit, for a one-bit flag
HasBit(h, bit) == (h \div bit) % 2 = 1

\* The nil *writerArgs that Close sends as the shutdown sentinel.
Nil == [id |-> <<"nil", 0>>, lvl |-> 0, len |-> 0, hint |-> <<"nil", 0>>, hs |-> 0]

\* Destinations an io.WriteCloser of the writers map can be.
\* no record built yet
NoRecord == [format |-> <<>>, level |-> DEBUG, t |-> 0, msg |-> <<>>, text |-> <<>>]
NoWriter == <<"none", 0>>
OsStdout == <<"stdout", 0>>
OsStderr == <<"stderr", 0>>
FileWriter(i) == <<"file", i>>

\* The zero time.Time a failed type assertion args.(time.Time) yields.
ZeroTime == 0 - 1000000

VARIABLES
    handler, levelThreshold, logDir, logFile, rotateType, rotateSize,
    writers,        \* map[Handler]io.WriteCloser
    writerChan,     \* the buffered jobs of the channel
    chanClosed,     \* close(obj.writerChan) has run
    done,           \* close(obj.done) has run
    bpc, args,      \* the backend goroutine: its position and the job it holds
    pc, job, calls, \* producers: position, the job being sent, calls made
    cpc,            \* callers of Close: position
    sets,           \* setter calls made
    hsets,          \* SetHandler calls made
    limit,          \* the calls and setter calls a run makes
    fds,            \* every file the process opened: [path, open]
    fs,             \* the file system: path -> records the file holds
    stderrClosed,   \* os.Stderr has been closed
    now,            \* the clock, in minutes
    wlog,           \* every fmt.Fprint of the backend: <<record id, kind, sink>>
    enq,            \* every job sent on writerChan, in channel order
    served,         \* the records whose write loop has run, in order
    nChanClose,     \* times close(obj.writerChan) ran
    nSentinel,      \* sentinels the backend received
    logFormat,      \* the configured list of format tokens
    built           \* the last record logging built: its inputs and its text

loggerVars == <<handler, levelThreshold, logDir, logFile, rotateType, rotateSize, writers>>
chanVars == <<writerChan, chanClosed, done, nChanClose, nSentinel>>
envVars == <<fds, fs, stderrClosed, now>>
callVars == <<calls, sets, hsets, limit>>
histVars == <<wlog, enq, served>>
fmtVars == <<logFormat, built>>
vars == <<loggerVars, chanVars, envVars, bpc, args, pc, job, cpc, callVars, histVars, fmtVars>>

(***************************************************************************)
(* The file system and the rotation policy                                 *)
(***************************************************************************)
\* Directories a caller passes to SetLogDir; os.Create and os.Stat fail in
\* the last one (it does not exist).
Dirs == {"", "/tmp", "/var/log", "/nodir"}
Usable(dir) == dir # "/nodir"

\* File names are <<pattern, number, index, unit>>:
\*   default.log                  <<"default", 0, 0, "">>
\*   2006-01-02.log               <<"day", day, 0, "">>
\*   2006-01-02_15.log            <<"hour", hour, 0, "">>
\*   2006-01-02_15-04.log         <<"minute", minute, 0, "">>
\*   rotating-<n><unit>.<i>.log   <<"rotating", n, i, unit>>
NoName == <<"", 0, 0, "">>
DefaultLog == <<"default", 0, 0, "">>

RECURSIVE SumLen(_)
SumLen(s) == IF s = <<>> THEN 0 ELSE Head(s).len + SumLen(Tail(s))

\* os.Stat: the size of the file and whether it exists
getFileInfo(f, path) ==
    IF path \in DOMAIN f
    THEN [size |-> SumLen(f[path]), exist |-> TRUE]
    ELSE [size |-> 0 - 1, exist |-> FALSE]

\* the human-readable size of the rotating file names
getSizeString(size) ==
    IF size < 1024 THEN <<size, "B">>
    ELSE IF size < 1048576 THEN <<size \div 1024, "kB">>
    ELSE IF size < 1073741824 THEN <<size \div 1048576, "MB">>
    ELSE <<size \div 1073741824, "GB">>

\* the name with the next index
getNextFileName(name) == <<name[1], name[2], name[3] + 1, name[4]>>

\* (a probe that passes every existing file and stops at the first missing one)
RECURSIVE ProbeFromFirstMissing(_, _, _, _, _)
ProbeFromFirstMissing(dir, rs, fname, recordSize, f) ==
    LET info == getFileInfo(f, <<dir, fname>>)
    IN  IF ~info.exist
        THEN [logFile |-> fname, needCreateFile |-> TRUE]
        ELSE ProbeFromFirstMissing(dir, rs, getNextFileName(fname), recordSize, f)

\* (a probe that passes a missing file too when the record exceeds the
\* ceiling, and takes the next index)
RECURSIVE ProbeFromPastMissing(_, _, _, _, _)
ProbeFromPastMissing(dir, rs, fname, recordSize, f) ==
    LET info == getFileInfo(f, <<dir, fname>>)
    IN  IF ~info.exist
        THEN [logFile |-> IF recordSize > rs THEN getNextFileName(fname) ELSE fname,
              needCreateFile |-> TRUE]
        ELSE IF info.size + recordSize <= rs
        THEN [logFile |-> fname, needCreateFile |-> FALSE]
        ELSE ProbeFromPastMissing(dir, rs, getNextFileName(fname), recordSize, f)

\* the cold-start probe of buildFileWriterBySize, from index fname[3] on
RECURSIVE ProbeFrom(_, _, _, _, _)
ProbeFrom(dir, rs, fname, recordSize, f) ==
    LET info == getFileInfo(f, <<dir, fname>>)
    IN  IF ~info.exist
        THEN [logFile |-> fname, needCreateFile |-> TRUE]
        ELSE IF info.size + recordSize <= rs
        THEN [logFile |-> fname, needCreateFile |-> FALSE]
        ELSE ProbeFrom(dir, rs, getNextFileName(fname), recordSize, f)

\* (a size policy that compares the size of the file alone with the ceiling,
\* leaving the record out)
buildFileWriterBySizeOfFile(dir, rs, lf, recordSize, f) ==
    IF lf = NoName
    THEN LET str == getSizeString(rs)
         IN  ProbeFrom(dir, rs, <<"rotating", str[1], 0, str[2]>>, recordSize, f)
    ELSE LET info == getFileInfo(f, <<dir, lf>>)
         IN  IF ~info.exist
             THEN [logFile |-> lf, needCreateFile |-> TRUE]
             ELSE IF info.size > rs
             THEN [logFile |-> getNextFileName(lf), needCreateFile |-> TRUE]
             ELSE [logFile |-> lf, needCreateFile |-> FALSE]

\* (a size policy that leaves a file as soon as the record fills it to the
\* ceiling)
buildFileWriterBySizeAtCeiling(dir, rs, lf, recordSize, f) ==
    IF lf = NoName
    THEN LET str == getSizeString(rs)
         IN  ProbeFrom(dir, rs, <<"rotating", str[1], 0, str[2]>>, recordSize, f)
    ELSE LET info == getFileInfo(f, <<dir, lf>>)
         IN  IF ~info.exist
             THEN [logFile |-> lf, needCreateFile |-> TRUE]
             ELSE IF info.size + recordSize >= rs
             THEN [logFile |-> getNextFileName(lf), needCreateFile |-> TRUE]
             ELSE [logFile |-> lf, needCreateFile |-> FALSE]

\* buildFileWriterBySize: (logFile, needCreateFile) for a record of recordSize
\* bytes
buildFileWriterBySize(dir, rs, lf, recordSize, f) ==
    IF lf = NoName
    THEN LET str == getSizeString(rs)
         IN  ProbeFrom(dir, rs, <<"rotating", str[1], 0, str[2]>>, recordSize, f)
    ELSE LET info == getFileInfo(f, <<dir, lf>>)
         IN  IF ~info.exist
             THEN [logFile |-> lf, needCreateFile |-> TRUE]
             ELSE IF info.size + recordSize > rs
             THEN [logFile |-> getNextFileName(lf), needCreateFile |-> TRUE]
             ELSE [logFile |-> lf, needCreateFile |-> FALSE]

\* recordTime.Format of the calendar patterns: the bucket of the time
CalendarName(rt, recordTime) ==
    CASE rt = RotateNone -> DefaultLog
      [] rt = RotateDay -> <<"day", recordTime \div 1440, 0, "">>
      [] rt = RotateHour -> <<"hour", recordTime \div 60, 0, "">>
      [] rt = RotateMinute -> <<"minute", recordTime, 0, "">>

\* (a target that is created exactly when no name is recorded yet, whatever
\* the directory holds)
RotationTargetFirstOnly(dir, rt, rs, lf, hint, f) ==
    IF rt = RotateSize
    THEN buildFileWriterBySize(dir, rs, lf, IF hint[1] = "size" THEN hint[2] ELSE 0, f)
    ELSE LET recordTime == IF hint[1] = "time" THEN hint[2] ELSE ZeroTime
         IN  [logFile |-> CalendarName(rt, recordTime), needCreateFile |-> lf = NoName]

\* (logFile, needCreateFile) of buildFileWriter, for the rotation hint of a job
RotationTarget(dir, rt, rs, lf, hint, f) ==
    IF rt = RotateSize
    THEN buildFileWriterBySize(dir, rs, lf, IF hint[1] = "size" THEN hint[2] ELSE 0, f)
    ELSE LET recordTime == IF hint[1] = "time" THEN hint[2] ELSE ZeroTime
             name == CalendarName(rt, recordTime)
         IN  [logFile |-> name,
              needCreateFile |-> ~getFileInfo(f, <<dir, name>>).exist]

\* w.Close() on a destination of the writers map
CloseFds(w) ==
    IF w[1] = "file" THEN [fds EXCEPT ![w[2]].open = FALSE] ELSE fds
ClosesStderr(w) == w = OsStderr

OpenHandles == {i \in DOMAIN fds : fds[i].open}

(***************************************************************************)
(* Construction                                                            *)
(***************************************************************************)
\* NewLogger: the fields it sets, the zero values of those it does not, and
\* the backend goroutine waiting on the channel, on a file system that holds
\* the files `files`.
\* The logger once SetHandler(h), SetLogLevel(t), SetLogDir(dir),
\* SetRotateType(rt) and SetRotateSize(rs) have been called on it.
SetUpWith(h, t, dir, rt, rs, files, format) ==
    /\ handler = h
    /\ levelThreshold = t
    /\ logDir = dir
    /\ logFile = NoName
    /\ rotateType = rt
    /\ rotateSize = rs
    /\ writers = [k \in Kinds |-> NoWriter]
    /\ writerChan = <<>>
    /\ chanClosed = FALSE
    /\ done = FALSE
    /\ bpc = "recv"
    /\ args = Nil
    /\ pc = [p \in Producers |-> "idle"]
    /\ job = [p \in Producers |-> Nil]
    /\ calls = 0
    /\ cpc = [c \in Closers |-> "idle"]
    /\ sets = 0
    /\ hsets = 0
    /\ fds = <<>>
    /\ fs = files
    /\ stderrClosed = FALSE
    /\ now = 0
    /\ wlog = <<>>
    /\ enq = <<>>
    /\ served = <<>>
    /\ nChanClose = 0
    /\ nSentinel = 0
    /\ logFormat = format
    /\ built = NoRecord

\* the same with the format list NewLogger sets
SetUpIn(h, t, dir, rt, rs, files) ==
    SetUpWith(h, t, dir, rt, rs, files, gDefaultLogFormat)

\* the same on an empty file system
SetUp(h, t, dir, rt, rs) == SetUpIn(h, t, dir, rt, rs, <<>>)

\* The logger once SetHandler(h) and SetLogLevel(t) have been called on it:
\* the directory, the rotation type and the rotation size are the zero values.
Configured(h, t) == SetUp(h, t, "", RotateNone, 0)

\* NewLogger
Constructed == Configured(None, DEBUG)

Init == Constructed /\ limit = [calls |-> MaxCalls, sets |-> MaxSets]
InitFilter ==
    /\ \E h \in Handlers, t \in Levels : Configured(h, t)
    /\ limit = [calls |-> FilterCalls, sets |-> 0]
InitConfig == Constructed /\ limit = [calls |-> ConfigCalls, sets |-> ConfigSets]

\* The directories and calendar strategies a file logger is set up with.
RotateDirs == {"", "/nodir"}
CalendarTypes == {RotateDay, RotateHour, RotateMinute}
InitRotate ==
    /\ \E dir \in RotateDirs, rt \in CalendarTypes : SetUp(File, DEBUG, dir, rt, 0)
    /\ limit = [calls |-> RotateCalls, sets |-> 0]

InitHandler == Constructed /\ limit = [calls |-> HandlerCalls, sets |-> HandlerSets]

\* The ceilings a logger rotating by size is set up with.
SizeCeilings == {2, 3}
InitSize ==
    /\ \E rs \in SizeCeilings : SetUp(File, INFO, "", RotateSize, rs)
    /\ limit = [calls |-> SizeCalls, sets |-> 0]

\* A record an earlier run of the program wrote.
OldRecord(n) ==
    [id |-> <<"old", n>>, lvl |-> INFO, len |-> n, hint |-> <<"size", n>>, hs |-> 0]

\* The log directory as an earlier run rotating by size with ceiling rs left
\* it: the files of index 0 .. k-1, each holding one record of 1 to 3 bytes.
Leftovers(rs) ==
    LET str == getSizeString(rs)
        names(k) == {<<DefaultLogDir, <<"rotating", str[1], i, str[2]>>>> : i \in 0 .. (k - 1)}
    IN  UNION {[names(k) -> {<<OldRecord(n)>> : n \in 1 .. 3}] : k \in 0 .. MaxLeftover}

RestartCeilings == {2}
InitRestart ==
    /\ \E rs \in RestartCeilings : \E files \in Leftovers(rs) :
           SetUpIn(File, INFO, "", RotateSize, rs, files)
    /\ limit = [calls |-> RestartCalls, sets |-> 0]

\* A string is the sequence of its pieces; the piece " " is one space.
\* the keys of logFmtStr
logFmtStr == {fmtLevel, fmtLTime, fmtTime, fmtLocation, fmtMsg}

\* what the switch of logging appends to buf for a supported token: the level
\* in brackets, the date and the time of day (to the microsecond or to the
\* second) with a space between them, the caller as file:line:function:, the
\* message
Rendered(f, level, t, msg) ==
    CASE f = fmtLevel -> <<"[", gLevelString[level + 1], "]">>
      [] f = fmtLTime -> <<<<"date", t>>, " ", <<"clock.000000", t>>>>
      [] f = fmtTime -> <<<<"date", t>>, " ", <<"clock", t>>>>
      [] f = fmtLocation -> <<"file", ":", "line", ":", "funcname", ":">>
      [] f = fmtMsg -> msg

\* (a loop that appends an empty string for a token it does not support)
RECURSIVE BufWithSkipped(_, _, _, _)
BufWithSkipped(format, level, t, msg) ==
    IF format = <<>> THEN <<>>
    ELSE (IF Head(format) \notin logFmtStr
          THEN << <<>> >>
          ELSE <<Rendered(Head(format), level, t, msg)>>)
         \o BufWithSkipped(Tail(format), level, t, msg)

\* buf after `for _, f := range l.logFormat`: a token that is not a key of
\* logFmtStr is skipped
RECURSIVE Buf(_, _, _, _)
Buf(format, level, t, msg) ==
    IF format = <<>> THEN <<>>
    ELSE (IF Head(format) \notin logFmtStr
          THEN <<>>
          ELSE <<Rendered(Head(format), level, t, msg)>>)
         \o Buf(Tail(format), level, t, msg)

\* strings.Join(elems, sep)
RECURSIVE Join(_, _)
Join(elems, sep) ==
    IF elems = <<>> THEN <<>>
    ELSE IF Len(elems) = 1 THEN elems[1]
    ELSE elems[1] \o <<sep>> \o Join(Tail(elems), sep)

\* record := strings.Join(buf, " ")
Record(format, level, t, msg) == Join(Buf(format, level, t, msg), " ")

(***************************************************************************)
(* Producers: the leveled logging calls                                    *)
(***************************************************************************)
\* (a filter that also drops the records at the threshold)
FilteredAtThreshold(h, threshold, level) == h = None \/ level <= threshold

\* the early return of logging
Filtered(h, threshold, level) == h = None \/ level < threshold

\* the rotateArgs of the job: the record's size or the logging time
RotateArgs(rt, n, t) == IF rt = RotateSize THEN <<"size", n>> ELSE <<"time", t>>

\* what the wrapper does once logging has returned: Panic, Panicln and
\* Panicf raise panic(record), the others return
AfterLogging(level) == IF level = PANIC THEN "aborted" ELSE "idle"

\* A call of Debug .. Panic (level) with a record of n bytes, up to the send.
\* job[p] holds the call's record, also when the call is filtered out; hs is
\* the number of SetHandler calls made before the call read l.handler.
LogCallOf(p, level, n) ==
    /\ pc[p] = "idle"
    /\ calls < limit.calls
    /\ calls' = calls + 1
    /\ job' = [job EXCEPT ![p] =
                  [id |-> <<p, calls + 1>>, lvl |-> level, len |-> n,
                   hint |-> RotateArgs(rotateType, n, now), hs |-> hsets]]
    /\ pc' = [pc EXCEPT ![p] = IF Filtered(handler, levelThreshold, level)
                               THEN AfterLogging(level) ELSE "send"]
    /\ UNCHANGED <<loggerVars, chanVars, envVars, bpc, args, cpc, sets, hsets, limit,
                   histVars>>

\* a call whose record is n bytes long
LogCall(p, level, n) == LogCallOf(p, level, n) /\ UNCHANGED fmtVars

\* a call with the message msg: the record is built from the format list
LogMessage(p, level, msg) ==
    LET record == Record(logFormat, level, now, msg)
    IN  /\ LogCallOf(p, level, Len(record))
        /\ built' = IF Filtered(handler, levelThreshold, level) THEN built
                     ELSE [format |-> logFormat, level |-> level, t |-> now,
                           msg |-> msg, text |-> record]
        /\ UNCHANGED logFormat

\* l.writerChan <- &writerArgs{...}: panics on a closed channel, blocks on a
\* full one
LogSend(p) ==
    /\ pc[p] = "send"
    /\ IF chanClosed
       THEN /\ pc' = [pc EXCEPT ![p] = "crashed"]
            /\ UNCHANGED <<writerChan, enq>>
       ELSE /\ Len(writerChan) < ChanCap
            /\ writerChan' = Append(writerChan, job[p])
            /\ enq' = Append(enq, job[p])
            /\ pc' = [pc EXCEPT ![p] = AfterLogging(job[p].lvl)]
    /\ UNCHANGED <<loggerVars, chanClosed, done, nChanClose, nSentinel, envVars,
                   bpc, args, job, cpc, callVars, wlog, served, fmtVars>>

(***************************************************************************)
(* Close                                                                   *)
(***************************************************************************)
\* (a Close without the probe of done: it always goes on to the send)
CloseNoProbe(c) ==
    /\ cpc[c] = "idle"
    /\ cpc' = [cpc EXCEPT ![c] = "send"]
    /\ UNCHANGED <<loggerVars, chanVars, envVars, bpc, args, pc, job, callVars, histVars, fmtVars>>

\* select { case <-l.done: return; default: }
CloseProbe(c) ==
    /\ cpc[c] = "idle"
    /\ cpc' = [cpc EXCEPT ![c] = IF done THEN "returned" ELSE "send"]
    /\ UNCHANGED <<loggerVars, chanVars, envVars, bpc, args, pc, job, callVars, histVars, fmtVars>>

\* (a Close that closes done itself instead of sending the sentinel)
CloseSendSignal(c) ==
    /\ cpc[c] = "send"
    /\ done' = TRUE
    /\ cpc' = [cpc EXCEPT ![c] = "returned"]
    /\ UNCHANGED <<loggerVars, writerChan, chanClosed, nChanClose, nSentinel, envVars,
                   bpc, args, pc, job, callVars, histVars, fmtVars>>

\* l.writerChan <- nil
CloseSend(c) ==
    /\ cpc[c] = "send"
    /\ IF chanClosed
       THEN /\ cpc' = [cpc EXCEPT ![c] = "crashed"]
            /\ UNCHANGED <<writerChan, enq>>
       ELSE /\ Len(writerChan) < ChanCap
            /\ writerChan' = Append(writerChan, Nil)
            /\ enq' = Append(enq, Nil)
            /\ cpc' = [cpc EXCEPT ![c] = "returned"]
    /\ UNCHANGED <<loggerVars, chanClosed, done, nChanClose, nSentinel, envVars,
                   bpc, args, pc, job, callVars, wlog, served, fmtVars>>

(***************************************************************************)
(* Setters                                                                 *)
(***************************************************************************)
SetHandler(h) ==
    /\ sets < limit.sets
    /\ sets' = sets + 1
    /\ hsets' = hsets + 1
    /\ handler' = h
    /\ UNCHANGED <<levelThreshold, logDir, logFile, rotateType, rotateSize, writers,
                   chanVars, envVars, bpc, args, pc, job, cpc, calls, limit, histVars, fmtVars>>

SetLogLevel(level) ==
    /\ sets < limit.sets
    /\ sets' = sets + 1
    /\ UNCHANGED hsets
    /\ levelThreshold' = level
    /\ UNCHANGED <<handler, logDir, logFile, rotateType, rotateSize, writers,
                   chanVars, envVars, bpc, args, pc, job, cpc, calls, limit, histVars, fmtVars>>

SetLogDir(dir) ==
    /\ sets < limit.sets
    /\ sets' = sets + 1
    /\ UNCHANGED hsets
    /\ logDir' = dir
    /\ UNCHANGED <<handler, levelThreshold, logFile, rotateType, rotateSize, writers,
                   chanVars, envVars, bpc, args, pc, job, cpc, calls, limit, histVars, fmtVars>>

SetRotateType(rotate) ==
    /\ sets < limit.sets
    /\ sets' = sets + 1
    /\ UNCHANGED hsets
    /\ rotateType' = rotate
    /\ UNCHANGED <<handler, levelThreshold, logDir, logFile, rotateSize, writers,
                   chanVars, envVars, bpc, args, pc, job, cpc, calls, limit, histVars, fmtVars>>

SetRotateSize(size) ==
    /\ sets < limit.sets
    /\ sets' = sets + 1
    /\ UNCHANGED hsets
    /\ rotateSize' = size
    /\ UNCHANGED <<handler, levelThreshold, logDir, logFile, rotateType, writers,
                   chanVars, envVars, bpc, args, pc, job, cpc, calls, limit, histVars, fmtVars>>

(***************************************************************************)
(* The backend writer goroutine                                            *)
(***************************************************************************)
\* (a backend that goes on receiving after the sentinel)
AfterSentinelLoop == "recv"

\* where the goroutine goes once it has closed done and the channel
AfterSentinel == "exited"

\* The cases of the select that are ready: done is closed; the channel holds
\* a job, or is closed (a closed channel yields its buffered jobs, then nil).
ReadyCases ==
    {c \in {"done", "chan"} :
        \/ c = "done" /\ done
        \/ c = "chan" /\ (writerChan # <<>> \/ chanClosed)}

\* (a receive that takes the newest job of the channel)
ChanRecvNewest(q) == IF q # <<>> THEN q[Len(q)] ELSE Nil

\* the value <-obj.writerChan yields: the oldest job, nil once the closed
\* channel is empty
ChanRecv(q) == IF q # <<>> THEN Head(q) ELSE Nil

\* select { case <-obj.done: return; case args := <-obj.writerChan: ... },
\* with close(obj.done) for the sentinel. Closing done a second time panics,
\* and the deferred recover ends the goroutine.
BackendRecv ==
    /\ bpc = "recv"
    /\ \E c \in ReadyCases :
          IF c = "done"
          THEN /\ bpc' = "exited"
               /\ UNCHANGED <<args, writerChan, done, nSentinel>>
          ELSE LET received == ChanRecv(writerChan)
               IN  /\ args' = received
                   /\ writerChan' = IF writerChan # <<>> THEN Tail(writerChan) ELSE <<>>
                   /\ IF received = Nil
                      THEN /\ done' = TRUE
                           /\ nSentinel' = nSentinel + 1
                           /\ bpc' = IF done THEN "recovered" ELSE "closeChan"
                      ELSE /\ bpc' = "stdout"
                           /\ UNCHANGED <<done, nSentinel>>
    /\ UNCHANGED <<loggerVars, chanClosed, nChanClose, envVars, pc, job, cpc,
                   callVars, histVars, fmtVars>>

\* close(obj.writerChan); return
BackendCloseChan ==
    /\ bpc = "closeChan"
    /\ chanClosed' = TRUE
    /\ nChanClose' = nChanClose + 1
    /\ bpc' = AfterSentinel
    /\ UNCHANGED <<loggerVars, writerChan, done, nSentinel, envVars, args, pc, job,
                   cpc, callVars, histVars, fmtVars>>

\* (a builder with the test of the bit inverted)
ConsoleWriterInverted(h, bit, w) == IF HasBit(h, bit) THEN NoWriter ELSE w

\* buildWriter, the console destinations: present iff the bit is set
ConsoleWriter(h, bit, w) == IF HasBit(h, bit) THEN w ELSE NoWriter

BuildStdout ==
    /\ bpc = "stdout"
    /\ writers' = [writers EXCEPT ![Stdout] = ConsoleWriter(handler, Stdout, OsStdout)]
    /\ bpc' = "stderr"
    /\ UNCHANGED <<handler, levelThreshold, logDir, logFile, rotateType, rotateSize,
                   chanVars, envVars, args, pc, job, cpc, callVars, histVars, fmtVars>>

BuildStderr ==
    /\ bpc = "stderr"
    /\ writers' = [writers EXCEPT ![Stderr] = ConsoleWriter(handler, Stderr, OsStderr)]
    /\ bpc' = "file"
    /\ UNCHANGED <<handler, levelThreshold, logDir, logFile, rotateType, rotateSize,
                   chanVars, envVars, args, pc, job, cpc, callVars, histVars, fmtVars>>

\* the open files after delete(l.writers, File) of the entry w: the entry is
\* dropped, the file it holds is not closed
DeleteFileWriter(w) == fds

\* buildWriter, the file destination: l.handler&File == File
BuildFile ==
    /\ bpc = "file"
    /\ IF HasBit(handler, File)
       THEN /\ bpc' = "fileWriter"
            /\ UNCHANGED <<writers, fds>>
       ELSE /\ writers' = [writers EXCEPT ![File] = NoWriter]
            /\ fds' = DeleteFileWriter(writers[File])
            /\ bpc' = "write"
    /\ UNCHANGED <<handler, levelThreshold, logDir, logFile, rotateType, rotateSize,
                   chanVars, fs, stderrClosed, now, args, pc, job, cpc, callVars,
                   histVars, fmtVars>>

\* buildFileWriter
BuildFileWriter ==
    /\ bpc = "fileWriter"
    /\ bpc' = "write"
    /\ IF ~HasBit(handler, File)
       THEN /\ writers' = [writers EXCEPT ![File] = OsStderr]
            /\ UNCHANGED <<logDir, logFile, rotateType, rotateSize, fds, fs, stderrClosed>>
       ELSE LET dir == IF logDir = "" THEN DefaultLogDir ELSE logDir
                rt == IF rotateType > RotateSize THEN DefaultRotateType ELSE rotateType
                rs == IF rt = RotateSize /\ rotateSize = 0
                      THEN DefaultRotateSize ELSE rotateSize
                tgt == RotationTarget(dir, rt, rs, logFile, args.hint, fs)
                path == <<dir, tgt.logFile>>
                old == writers[File]
            IN  /\ logDir' = dir
                /\ rotateType' = rt
                /\ rotateSize' = rs
                /\ logFile' = tgt.logFile
                /\ IF tgt.needCreateFile
                   THEN \* w.Close() of the entry, then os.Create
                        /\ stderrClosed' = (stderrClosed \/ ClosesStderr(old))
                        /\ IF Usable(dir)
                           THEN /\ fds' = Append(CloseFds(old), [path |-> path, open |-> TRUE])
                                /\ fs' = (path :> <<>>) @@ fs
                                /\ writers' = [writers EXCEPT ![File] = FileWriter(Len(fds) + 1)]
                           ELSE /\ fds' = CloseFds(old)
                                /\ writers' = [writers EXCEPT ![File] = OsStderr]
                                /\ UNCHANGED fs
                   ELSE IF old # NoWriter
                   THEN \* already open: the entry is returned as it is
                        UNCHANGED <<writers, fds, fs, stderrClosed>>
                   ELSE \* os.OpenFile(logFile, O_WRONLY|O_APPEND)
                        /\ IF path \in DOMAIN fs
                           THEN /\ fds' = Append(fds, [path |-> path, open |-> TRUE])
                                /\ writers' = [writers EXCEPT ![File] = FileWriter(Len(fds) + 1)]
                           ELSE /\ writers' = [writers EXCEPT ![File] = OsStderr]
                                /\ UNCHANGED fds
                        /\ UNCHANGED <<fs, stderrClosed>>
    /\ UNCHANGED <<handler, levelThreshold, chanVars, now, args, pc, job, cpc,
                   callVars, histVars, fmtVars>>

\* whether a write to the destination reaches it
Delivered(w) ==
    CASE w = OsStdout -> TRUE
      [] w = OsStderr -> ~stderrClosed
      [] OTHER -> fds[w[2]].open

\* the fmt.Fprint of one destination of the map: <<record, kind, sink, delivered>>
Fprint(k, rec) ==
    IF writers[k] = NoWriter THEN <<>>
    ELSE << <<rec.id, k, writers[k], Delivered(writers[k])>> >>

\* for _, w := range obj.writers { fmt.Fprint(w, args.record) }
\* (the map is ranged over in no fixed order; the model writes to stdout, stderr
\* and the file in this order, which no destination alone can tell)
BackendWrite ==
    /\ bpc = "write"
    /\ wlog' = wlog \o Fprint(Stdout, args) \o Fprint(Stderr, args) \o Fprint(File, args)
    /\ served' = Append(served, args.id)
    /\ LET w == writers[File]
       IN  IF w[1] = "file" /\ fds[w[2]].open /\ fds[w[2]].path \in DOMAIN fs
           THEN fs' = [fs EXCEPT ![fds[w[2]].path] = Append(@, args)]
           ELSE UNCHANGED fs
    /\ bpc' = "recv"
    /\ UNCHANGED <<loggerVars, chanVars, fds, stderrClosed, now, args, pc, job, cpc,
                   callVars, enq, fmtVars>>

\* A destination panics in the write: the deferred recover of the goroutine
\* prints the failure, and the goroutine ends.
BackendPanic ==
    /\ bpc = "write"
    /\ bpc' = "recovered"
    /\ UNCHANGED <<loggerVars, chanVars, envVars, args, pc, job, cpc, callVars,
                   histVars, fmtVars>>

\* the loop of the goroutine
BackendLoop ==
    \/ BackendRecv
    \/ BuildStdout
    \/ BuildStderr
    \/ BuildFile
    \/ BuildFileWriter
    \/ BackendWrite

Backend == BackendLoop \/ BackendCloseChan

(***************************************************************************)
(* Specifications                                                          *)
(***************************************************************************)
\* The sizes of the records that are logged.
RecLens == {1}
\* The severities and handler selections the callers of Spec use.
SpecLevels == {INFO, PANIC}
SpecHandlers == {None, Stdout, File, Stdout + File}

\* Two producers, two callers of Close, a caller of SetHandler.
Next ==
    \/ \E p \in Producers, level \in SpecLevels, n \in RecLens : LogCall(p, level, n)
    \/ \E p \in Producers : LogSend(p)
    \/ \E c \in Closers : CloseProbe(c)
    \/ \E c \in Closers : CloseSend(c)
    \/ \E h \in SpecHandlers : SetHandler(h)
    \/ Backend

Spec == Init /\ [][Next]_vars

\* Spec with a destination that may panic in the write.
NextFault == Next \/ BackendPanic

SpecFault == Init /\ [][NextFault]_vars

\* One producer at every severity, under every handler selection and threshold,
\* on a logger that is not closed.
NextFilter ==
    \/ \E level \in Levels, n \in RecLens : LogCall("p1", level, n)
    \/ LogSend("p1")
    \/ BackendLoop

SpecFilter == InitFilter /\ [][NextFilter]_vars

\* One producer and the setters of the file destination.
ConfigHandlers == {Stdout, File}
ConfigDirs == {"/var/log"}
ConfigRotateTypes == {RotateSize}
ConfigRotateSizes == {1}

NextConfig ==
    \/ \E n \in RecLens : LogCall("p1", INFO, n)
    \/ LogSend("p1")
    \/ CloseProbe("c1")
    \/ CloseSend("c1")
    \/ \E h \in ConfigHandlers : SetHandler(h)
    \/ \E dir \in ConfigDirs : SetLogDir(dir)
    \/ \E rotate \in ConfigRotateTypes : SetRotateType(rotate)
    \/ \E size \in ConfigRotateSizes : SetRotateSize(size)
    \/ Backend

SpecConfig == InitConfig /\ [][NextConfig]_vars

\* The times the clock shows, in minutes: the first minute, the next one, the
\* next hour and the next day.
Times == {0, 1, 60, 1440}

\* time passes between two readings of time.Now()
Tick ==
    /\ \E t \in Times : t > now /\ now' = t
    /\ UNCHANGED <<loggerVars, chanVars, fds, fs, stderrClosed, bpc, args, pc, job, cpc,
                   callVars, histVars, fmtVars>>

\* Two producers on a file logger with a calendar strategy, while time passes.
NextRotate ==
    \/ \E p \in Producers, n \in RecLens : LogCall(p, INFO, n)
    \/ \E p \in Producers : LogSend(p)
    \/ Tick
    \/ BackendLoop

SpecRotate == InitRotate /\ [][NextRotate]_vars

\* One producer of records of one to three bytes on a file logger rotating by
\* size, in an empty directory.
SizeLens == {1, 2, 3}

NextSize ==
    \/ \E n \in SizeLens : LogCall("p1", INFO, n)
    \/ LogSend("p1")
    \/ BackendLoop

SpecSize == InitSize /\ [][NextSize]_vars

\* One producer on a file logger rotating by size, started in a directory
\* that holds the files of an earlier run.
NextRestart ==
    \/ \E n \in SizeLens : LogCall("p1", INFO, n)
    \/ LogSend("p1")
    \/ BackendLoop

SpecRestart == InitRestart /\ [][NextRestart]_vars

\* A logger that writes to the one file default.log, in a usable or an
\* unusable directory, where an earlier run may have left default.log.
NoneLeftovers == {<<>>, (<<DefaultLogDir, DefaultLog>> :> <<OldRecord(1)>>)}
InitNone ==
    /\ \E dir \in RotateDirs, files \in NoneLeftovers :
           SetUpIn(File, INFO, dir, RotateNone, 0, files)
    /\ limit = [calls |-> NoneCalls, sets |-> 0]

\* A logger whose rotation type is set, between records, to a calendar type or
\* to a value outside the recognised set (the first value above RotateSize).
InvalidHandlers == {Stdout, File}
InvalidInitTypes == {RotateNone, RotateHour}
RotateInputs == {RotateDay, RotateSize + 1}
InitInvalid ==
    /\ \E h \in InvalidHandlers, rt \in InvalidInitTypes : SetUp(h, INFO, "", rt, 0)
    /\ limit = [calls |-> InvalidCalls, sets |-> InvalidSets]

NextInvalid ==
    \/ LogCall("p1", INFO, 1)
    \/ LogSend("p1")
    \/ BackendLoop
    \/ \E rotate \in RotateInputs : SetRotateType(rotate)

SpecInvalid == InitInvalid /\ [][NextInvalid]_vars

\* A console or file logger with two producers and two callers of Close, where the
\* goroutine of NewLogger and a goroutine that has reached the send of Close
\* are not left waiting for ever while they can take their step.
LiveHandlers == {Stdout, File}
InitLive ==
    /\ \E h \in LiveHandlers : Configured(h, DEBUG)
    /\ limit = [calls |-> LiveCalls, sets |-> 0]

NextLive ==
    \/ \E p \in Producers, n \in RecLens : LogCall(p, INFO, n)
    \/ \E p \in Producers : LogSend(p)
    \/ \E c \in Closers : CloseProbe(c)
    \/ \E c \in Closers : CloseSend(c)
    \/ Backend

Fairness ==
    /\ WF_vars(Backend)
    /\ \A c \in Closers : WF_vars(CloseSend(c))

SpecLive == InitLive /\ [][NextLive]_vars /\ Fairness

\* A console and file logger whose format list was set to a list of up to MaxTokens
\* tokens, supported or not, and which logs messages with and without spaces.
Tokens == logFmtStr \cup {"thread"}
Formats == UNION {[1 .. k -> Tokens] : k \in 0 .. MaxTokens}
FormatLevels == {INFO, ERROR}
Messages == {<<>>, <<"a", " ", "b">>}
InitFormat ==
    /\ \E format \in Formats :
           SetUpWith(Stdout + File, DEBUG, "", RotateNone, 0, <<>>, format)
    /\ limit = [calls |-> FormatCalls, sets |-> 0]

NextFormat ==
    \/ \E level \in FormatLevels, msg \in Messages : LogMessage("p1", level, msg)
    \/ LogSend("p1")
    \/ BackendLoop

SpecFormat == InitFormat /\ [][NextFormat]_vars

\* A size-rotating logger whose ceiling is negative, zero (replaced by the
\* default ceiling when the destination is built) or small, in a directory
\* where an earlier run left files under the names of that ceiling.
ProbeCeilings == {0 - 1, 0, 1, 2}
Effective(rs) == IF rs = 0 THEN DefaultRotateSize ELSE rs
InitProbe ==
    /\ \E rs \in ProbeCeilings : \E files \in Leftovers(Effective(rs)) :
           SetUpIn(File, INFO, "", RotateSize, rs, files)
    /\ limit = [calls |-> ProbeCalls, sets |-> 0]

\* a file of the log directory is removed from outside the program
RemoveFile ==
    /\ \E path \in DOMAIN fs : fs' = [q \in DOMAIN fs \ {path} |-> fs[q]]
    /\ UNCHANGED <<loggerVars, chanVars, fds, stderrClosed, now, bpc, args, pc, job, cpc,
                   callVars, histVars, fmtVars>>

NextNone ==
    \/ LogCall("p1", INFO, 1)
    \/ LogSend("p1")
    \/ BackendLoop
    \/ RemoveFile

SpecNone == InitNone /\ [][NextNone]_vars

\* SpecRestart in a directory whose files may be removed at any time.
NextPolicy ==
    \/ NextRestart
    \/ RemoveFile

InitPolicy ==
    /\ \E rs \in RestartCeilings : \E files \in Leftovers(rs) :
           SetUpIn(File, INFO, "", RotateSize, rs, files)
    /\ limit = [calls |-> PolicyCalls, sets |-> 0]

SpecPolicy == InitPolicy /\ [][NextPolicy]_vars

SpecProbe == InitProbe /\ [][NextPolicy]_vars

\* One producer and a caller of SetHandler with every handler selection, on a
\* logger that is not closed.
NextHandler ==
    \/ \E n \in RecLens : LogCall("p1", INFO, n)
    \/ LogSend("p1")
    \/ \E h \in Handlers : SetHandler(h)
    \/ BackendLoop

SpecHandler == InitHandler /\ [][NextHandler]_vars

(***************************************************************************)
(* Properties                                                              *)
(***************************************************************************)
Ids(q) == [i \in 1 .. Len(q) |-> q[i].id]

\* the records delivered to the destination of kind k, in the order written
WrittenTo(k) ==
    LET hits == SelectSeq(wlog, LAMBDA e : e[2] = k /\ e[4])
    IN  [i \in 1 .. Len(hits) |-> hits[i][1]]

\* the record the backend has received and not yet written
InFlight ==
    IF bpc \in {"stdout", "stderr", "file", "fileWriter", "write"}
    THEN <<args.id>> ELSE <<>>

\* the position of the first sentinel of enq (past its end when it has none)
FirstNil(s) ==
    LET idx == {i \in 1 .. Len(s) : s[i] = Nil}
    IN  IF idx = {} THEN Len(s) + 1 ELSE CHOOSE i \in idx : \A j \in idx : i <= j

InSeq(x, s) == \E i \in 1 .. Len(s) : s[i] = x

\* C1: a logging call at severity L reaches the send, and the send on the
\* open channel enqueues exactly its one job, iff handler # None and L is at
\* least the threshold; otherwise the call returns and the queue is unchanged.
C1_FilterDecidesEnqueue ==
    [][/\ \A p \in Producers :
            (calls' = calls + 1 /\ job'[p].id = <<p, calls'>>) =>
                /\ writerChan' = writerChan
                /\ enq' = enq
                /\ (pc'[p] = "send") <=>
                       (handler # None /\ job'[p].lvl >= levelThreshold)
                /\ pc'[p] \in {"send", AfterLogging(job'[p].lvl)}
       /\ \A p \in Producers :
            (pc[p] = "send" /\ pc'[p] # "send" /\ ~chanClosed) =>
                /\ writerChan' = Append(writerChan, job[p])
                /\ enq' = Append(enq, job[p])
      ]_vars

\* C1 witness: a call at the threshold (above DEBUG) was enqueued, and a later
\* call below the threshold has returned with nothing enqueued for it.
C1_Witness ==
    /\ Len(enq) = 1
    /\ enq[1].lvl = levelThreshold
    /\ levelThreshold > DEBUG
    /\ calls = 2
    /\ job["p1"].id = <<"p1", 2>>
    /\ job["p1"].lvl < levelThreshold
    /\ pc["p1"] = "idle"

\* C2: with the handler selection set once and no Close, the records
\* delivered to each active destination, followed by the record being written
\* and the queued ones, are the enqueued records in enqueue order; a
\* producer's records are delivered in the order of its calls.
C2_WrittenInEnqueueOrder ==
    (hsets <= 1 /\ \A c \in Closers : cpc[c] = "idle") =>
        \A k \in Kinds :
            HasBit(handler, k) =>
                /\ WrittenTo(k) \o InFlight \o Ids(writerChan) = Ids(enq)
                /\ \A i, j \in 1 .. Len(WrittenTo(k)) :
                       (i < j /\ WrittenTo(k)[i][1] = WrittenTo(k)[j][1]) =>
                           WrittenTo(k)[i][2] < WrittenTo(k)[j][2]

\* C2 witness: the records of two producers have both been written to the file
\* destination and to stdout.
C2_Witness ==
    /\ hsets <= 1
    /\ \A c \in Closers : cpc[c] = "idle"
    /\ handler = Stdout + File
    /\ Len(WrittenTo(File)) = 2
    /\ Len(WrittenTo(Stdout)) = 2
    /\ WrittenTo(File)[1][1] # WrittenTo(File)[2][1]

\* C3 (as claimed): two calls of Close raise no panic in a caller, and the
\* backend receives at most one sentinel.
C3_CloseTwiceNoError ==
    /\ \A c \in Closers : cpc[c] # "crashed"
    /\ nSentinel <= 1

\* C4 (as claimed): only a call of the panic tier ends in a panic of its
\* caller.
C4_NoPanicBelowPanicTier ==
    \A p \in Producers :
        /\ pc[p] = "crashed" => job[p].lvl = PANIC
        /\ pc[p] = "aborted" => job[p].lvl = PANIC

\* C5 (as claimed): a panic of a destination does not end the backend; the
\* goroutine ends only by the sentinel.
C5_BackendSurvivesSinkPanic ==
    bpc \in {"exited", "recovered"} => done

\* C6 (as claimed): the logger holds at most one open file handle.
C6_AtMostOneOpenHandle == Cardinality(OpenHandles) <= 1

\* C7 (as claimed): once the backend has processed the sentinel and ended, no
\* file the logger opened is open.
C7_HandleReleasedAtShutdown ==
    (bpc = "exited" /\ chanClosed) => OpenHandles = {}

\* C8: when the backend has ended by the sentinel, every record enqueued
\* before the first sentinel has been through the write loop, and, with the
\* handler selection set once, was delivered to every active destination.
C8_CloseDrains ==
    bpc = "exited" =>
        \A i \in 1 .. (FirstNil(enq) - 1) :
            /\ InSeq(enq[i].id, served)
            /\ hsets <= 1 =>
                   \A k \in Kinds : HasBit(handler, k) => InSeq(enq[i].id, WrittenTo(k))

\* C8 witness: the backend has ended with two records enqueued before the
\* sentinel, both written to the file.
C8_Witness ==
    /\ bpc = "exited"
    /\ FirstNil(enq) = 3
    /\ Len(WrittenTo(File)) = 2

\* C9: once done is closed no job goes through the write loop and nothing is
\* written, and the channel is closed at most once (once when the backend has
\* ended).
C9_NothingAfterSentinel ==
    /\ [][done => (served' = served /\ wlog' = wlog /\ fs' = fs /\ writers' = writers)]_vars
    /\ [](nChanClose <= 1)
    /\ [](bpc = "exited" => nChanClose = 1)

\* C9 witness: the backend has ended and a record enqueued behind the sentinel
\* is left in the closed channel.
C9_Witness ==
    /\ bpc = "exited"
    /\ chanClosed
    /\ \E i \in 1 .. Len(writerChan) : writerChan[i] # Nil

\* C10 (as claimed): a Close that found done open can send its sentinel at
\* once, whatever the queue holds: it never has to wait for the backend.
C10_CloseNeverWaits ==
    \A c \in Closers :
        cpc[c] = "send" => (~chanClosed /\ Len(writerChan) < ChanCap)

\* the sentinels sent so far
NilsSent == Cardinality({i \in 1 .. Len(enq) : enq[i] = Nil})

\* C11: a Close called when done is closed returns in its probe: it sends
\* nothing, and the channel, the fields of the logger, the files and
\* everything written are unchanged.
C11_CloseAfterShutdownNoOp ==
    [][\A c \in Closers :
          (done /\ cpc[c] = "idle" /\ cpc'[c] # "idle") =>
              /\ cpc'[c] = "returned"
              /\ UNCHANGED <<loggerVars, chanVars, envVars, histVars, bpc, args>>
      ]_vars

\* C11 witness: both callers of Close have returned and the backend has ended,
\* with one sentinel sent in all: the second Close returned in its probe.
C11_Witness ==
    /\ \A c \in Closers : cpc[c] = "returned"
    /\ bpc = "exited"
    /\ chanClosed
    /\ NilsSent = 1

\* C12 (as claimed): the channel never holds more than its capacity, and a
\* call that passed the filter leaves the send only by appending its job to
\* the channel: it waits while the channel is full and never ends with its
\* record dropped.
C12_BlockingHandOff ==
    /\ [](Len(writerChan) <= ChanCap)
    /\ [][\A p \in Producers :
             (pc[p] = "send" /\ pc'[p] # "send") =>
                 /\ writerChan' = Append(writerChan, job[p])
                 /\ pc'[p] = AfterLogging(job[p].lvl)
         ]_vars

\* the state of the failing run of C12: a producer at the send of a full
\* channel that the backend has closed
C12_FullQueueClosed ==
    \E p \in Producers : pc[p] = "send" /\ Len(writerChan) = ChanCap /\ chanClosed

\* C16 (as claimed): a call of Panic, Panicln or Panicf that passed the filter
\* ends abnormally only by the panic(record) of its wrapper, and its job has
\* been appended to the channel when it does.
C16_EnqueueBeforePanic ==
    [][\A p \in Producers :
          (job[p].lvl = PANIC /\ pc[p] = "send" /\ pc'[p] # "send") =>
              /\ pc'[p] = "aborted"
              /\ writerChan' = Append(writerChan, job[p])
              /\ enq' = Append(enq, job[p])
      ]_vars

\* a Panic call that passed the filter has raised panic(record) with its job
\* sent (the run in which C16 holds)
C16_PanicAfterEnqueue ==
    \E p \in Producers :
        pc[p] = "aborted" /\ job[p].lvl = PANIC /\ InSeq(job[p], enq)

\* the pattern of the file names of a rotation strategy
PatternOf(rt) ==
    CASE rt = RotateNone -> "default"
      [] rt = RotateDay -> "day"
      [] rt = RotateHour -> "hour"
      [] rt = RotateMinute -> "minute"
      [] rt = RotateSize -> "rotating"

\* C13 (as claimed): SetLogDir and SetRotateType take effect on the next
\* written record: the file buildFileWriter hands to the write of a record
\* lies in the directory in force when it runs and is named by the pattern of
\* the rotation strategy in force.
C13_SettersTakeEffect ==
    [][(bpc = "fileWriter" /\ bpc' = "write" /\ writers'[File][1] = "file") =>
          LET path == fds'[writers'[File][2]].path
          IN  /\ path[1] = logDir'
              /\ path[2][1] = PatternOf(rotateType')
      ]_vars

\* C14 (as claimed): under a calendar strategy every file holds only records
\* whose hint time falls in the bucket the file is named after, so records of
\* different buckets are in different files.
C14_CalendarBuckets ==
    \A path \in DOMAIN fs :
        path[2][1] \in {"day", "hour", "minute"} =>
            \A i \in 1 .. Len(fs[path]) :
                /\ fs[path][i].hint[1] = "time"
                /\ CalendarName(rotateType, fs[path][i].hint[2]) = path[2]

\* C18 (as claimed): the handle buildFileWriter hands to the write of a
\* record is an open handle of the file the rotation policy selected for the
\* record, filepath.Join(l.logDir, l.logFile).
C18_HandleOfTarget ==
    [][(bpc = "fileWriter" /\ bpc' = "write" /\ writers'[File][1] = "file") =>
          LET fd == fds'[writers'[File][2]]
          IN  fd.open /\ fd.path = <<logDir', logFile'>>
      ]_vars

\* C19 (as claimed): the logger never closes a console destination.
C19_ConsoleNeverClosed == ~stderrClosed

\* the bytes the files of the set paths hold
RECURSIVE SizeOfFiles(_, _)
SizeOfFiles(f, paths) ==
    IF paths = {} THEN 0
    ELSE LET q == CHOOSE q \in paths : TRUE
         IN  SumLen(f[q]) + SizeOfFiles(f, paths \ {q})

\* the files are rotating-<S>.0.log .. rotating-<S>.<k-1>.log of the directory
IndexedFiles ==
    LET str == getSizeString(rotateSize)
    IN  DOMAIN fs = {<<DefaultLogDir, <<"rotating", str[1], i, str[2]>>>> :
                        i \in 0 .. (Cardinality(DOMAIN fs) - 1)}

\* no file is larger than the ceiling, but one that holds a single record
\* larger than the ceiling; every record written is in one file, in full
SizeWithinCeiling ==
    /\ \A path \in DOMAIN fs :
           SumLen(fs[path]) > rotateSize => Len(fs[path]) = 1
    /\ \A i \in 1 .. Len(served) :
           /\ enq[i].id = served[i]
           /\ Cardinality({path \in DOMAIN fs : InSeq(enq[i], fs[path])}) = 1
    /\ SizeOfFiles(fs, DOMAIN fs) = SumLen(SubSeq(enq, 1, Len(served)))

\* C15 (as claimed): rotating by size with ceiling S from an empty directory,
\* once the records written exceed S in total there is more than one indexed
\* file, and no file exceeds S but one holding a single record larger than S.
C15_SizeRotation ==
    /\ IndexedFiles
    /\ SizeWithinCeiling
    /\ SizeOfFiles(fs, DOMAIN fs) > rotateSize => Cardinality(DOMAIN fs) > 1

\* C15 (amended): the same, but while the only record written is one larger
\* than S, it is alone in the one file of index 0.
C15_SizeRotationAmended ==
    /\ IndexedFiles
    /\ SizeWithinCeiling
    /\ SizeOfFiles(fs, DOMAIN fs) > rotateSize =>
           \/ Cardinality(DOMAIN fs) > 1
           \/ Len(served) = 1 /\ enq[1].len > rotateSize

\* C15 witness: a file filled to the ceiling by two records, a record larger
\* than the ceiling alone in the next file, and a file after it.
C15_Witness ==
    /\ Cardinality(DOMAIN fs) = 3
    /\ \E path \in DOMAIN fs : Len(fs[path]) = 2 /\ SumLen(fs[path]) = rotateSize
    /\ \E path \in DOMAIN fs : Len(fs[path]) = 1 /\ SumLen(fs[path]) > rotateSize
    /\ Len(served) = 4

\* C17 (as claimed): while the backend is in buildFileWriter, which reads and
\* writes the directory, the rotation type, the rotation size, the file name
\* and the file entry of the writers map, no other thread writes one of them:
\* they change in steps of the backend only.
C17_BackendOnlyWriter ==
    [][(bpc = "fileWriter" /\ bpc' = bpc) =>
          UNCHANGED <<writers, fds, logFile, logDir, rotateType, rotateSize>>
      ]_vars

\* the kinds of destination the write loop wrote the record id to, among the
\* writes of log
KindsWritten(log, id) == {k \in Kinds : \E i \in 1 .. Len(log) : log[i][1] = id /\ log[i][2] = k}

HintKind(rt) == IF rt = RotateSize THEN "size" ELSE "time"

\* C21 (as claimed): when buildFileWriter evaluates the rotation of a job,
\* the hint of the job is of the kind of the strategy it applies: a byte count
\* under RotateSize, a timestamp under the other strategies.
C21_HintMatchesStrategy ==
    [][(bpc = "fileWriter" /\ bpc' = "write" /\ HasBit(handler, File)) =>
          args.hint[1] = HintKind(rotateType')
      ]_vars

\* C22 (as claimed): no step of the backend destroys a written record: every
\* file keeps the records it holds, so a file that is created (truncated)
\* did not exist or held no record.
C22_NoRecordDestroyed ==
    [][\A path \in DOMAIN fs :
          /\ path \in DOMAIN fs'
          /\ Len(fs'[path]) >= Len(fs[path])
          /\ SubSeq(fs'[path], 1, Len(fs[path])) = fs[path]
      ]_vars

\* C23 (as claimed): a job whose file cannot be created or opened is written
\* to os.Stderr as its file destination, and the write reaches os.Stderr;
\* every job served has a write for its file destination, and the backend
\* does not end on the failure.
C23_FallbackWritten ==
    /\ \A i \in 1 .. Len(wlog) :
           (wlog[i][2] = File /\ wlog[i][3] = OsStderr) => wlog[i][4]
    /\ \A i \in 1 .. Len(served) :
           HasBit(handler, File) => File \in KindsWritten(wlog, served[i])
    /\ bpc # "recovered"

\* a job was written to os.Stderr in place of the file that could not be
\* created (the run in which the fallback works)
C23_FallbackReached ==
    \E i \in 1 .. Len(wlog) :
        wlog[i][2] = File /\ wlog[i][3] = OsStderr /\ wlog[i][4]

\* buildFileWriter runs for a job, with the file handler active
FileWriterStep == bpc = "fileWriter" /\ bpc' = "write" /\ HasBit(handler, File)

\* the step created (truncated) the file it selected
CreatedTarget ==
    LET path == <<logDir', logFile'>>
    IN  /\ path \in DOMAIN fs'
        /\ fs'[path] = <<>>
        /\ path \notin DOMAIN fs \/ fs[path] # <<>>
        /\ Len(fds') = Len(fds) + 1

\* C24: rotating by size with the file of index i recorded, for a record of
\* hint size h: the file is recreated at index i when it no longer exists, the
\* file of index i+1 is created when size + h exceeds the ceiling, and the file
\* of index i is kept, not created, otherwise; the index never decreases.
C24_RecordedNamePolicy ==
    [][(FileWriterStep /\ rotateType' = RotateSize /\ logFile # NoName) =>
          LET cur == <<logDir', logFile>>
              i == logFile[3]
              h == args.hint[2]
          IN  /\ <<logFile'[1], logFile'[2], logFile'[4]>> = <<logFile[1], logFile[2], logFile[4]>>
              /\ logFile'[3] >= i
              /\ IF cur \notin DOMAIN fs
                 THEN logFile'[3] = i /\ CreatedTarget
                 ELSE IF SumLen(fs[cur]) + h > rotateSize'
                 THEN logFile'[3] = i + 1 /\ CreatedTarget
                 ELSE logFile'[3] = i /\ ~CreatedTarget /\ fs' = fs
      ]_vars

\* C24 witness: the recorded file received the first record, was removed, and
\* the backend has recreated it at the same index for the second job, which
\* it is about to write.
C24_Witness ==
    /\ bpc = "write"
    /\ logFile[1] = "rotating"
    /\ Len(served) = 1
    /\ Len(fds) = 2
    /\ fds[1].path = <<DefaultLogDir, logFile>>
    /\ fds[2].path = <<DefaultLogDir, logFile>>
    /\ \E i \in 1 .. Len(wlog) : wlog[i][1] = served[1] /\ wlog[i][3] = FileWriter(1)
    /\ fs[<<DefaultLogDir, logFile>>] = <<>>

\* the indexed file of the rotating name lf at index j, in the directory of the
\* next state
IndexedPath(lf, j) == <<logDir', <<lf[1], lf[2], j, lf[4]>>>>

\* the file of index j takes a record of h bytes: it does not exist, or it
\* exists and holds it within the ceiling
TakesRecord(lf, j, h) ==
    \/ IndexedPath(lf, j) \notin DOMAIN fs
    \/ SumLen(fs[IndexedPath(lf, j)]) + h <= rotateSize'

\* C25: rotating by size with no file name recorded, for a record of hint size
\* h the backend selects the lowest index whose file does not exist or holds
\* the record within the ceiling, and creates the file iff it did not exist.
C25_ColdStartProbe ==
    [][(FileWriterStep /\ rotateType' = RotateSize /\ logFile = NoName) =>
          LET i == logFile'[3]
              h == args.hint[2]
          IN  /\ logFile'[1] = "rotating"
              /\ <<logFile'[2], logFile'[4]>> = getSizeString(rotateSize')
              /\ TakesRecord(logFile', i, h)
              /\ \A j \in 0 .. (i - 1) : ~TakesRecord(logFile', j, h)
              /\ CreatedTarget <=> IndexedPath(logFile', i) \notin DOMAIN fs
              /\ ~CreatedTarget => fs' = fs
      ]_vars

\* C25 witness: the first record of the run was too large for the file of
\* index 0 left by an earlier run and was appended to the file of index 1,
\* which existed and had room for it.
C25_Witness ==
    /\ Len(served) = 1
    /\ logFile[1] = "rotating"
    /\ logFile[3] = 1
    /\ Len(fds) = 1
    /\ Len(fs[<<DefaultLogDir, logFile>>]) = 2
    /\ fs[<<DefaultLogDir, logFile>>][1].id[1] = "old"

\* the step left every file and every handle as it was
NothingCreated ==
    /\ fs' = fs
    /\ fds' = fds
    /\ stderrClosed' = stderrClosed

\* C26 (as stated): without rotation the target is default.log for every
\* record, and a record processed when a file name is already recorded never
\* has needNewFile true: nothing is closed, created or truncated for it.
C26_CreatedOnlyFirst ==
    [][(FileWriterStep /\ rotateType' = RotateNone) =>
          /\ logFile' = DefaultLog
          /\ logFile # NoName => NothingCreated
      ]_vars

\* C26 (amended): without rotation the target is default.log for every record,
\* and needNewFile is true iff default.log does not exist in the log directory
\* when the record is processed: then the open destination is closed and the
\* file is created (in a usable directory), and otherwise the file and the
\* handles open on it are left as they are, also for the first record.
C26_CreatedIffMissing ==
    [][(FileWriterStep /\ rotateType' = RotateNone) =>
          LET path == <<logDir', DefaultLog>>
          IN  /\ logFile' = DefaultLog
              /\ IF path \notin DOMAIN fs
                 THEN /\ fds' # fds \/ ~Usable(logDir')
                      /\ Usable(logDir') => CreatedTarget
                      /\ writers[File] = OsStderr => stderrClosed'
                      /\ \A i \in DOMAIN fds : writers[File] = FileWriter(i) => ~fds'[i].open
                 ELSE /\ fs' = fs
                      /\ stderrClosed' = stderrClosed
                      /\ \A i \in DOMAIN fds : fds'[i] = fds[i]
                      /\ writers[File] # NoWriter => NothingCreated
      ]_vars

\* C26 witness: default.log was left by an earlier run; the first record was
\* appended to it through a newly opened handle, and the second through the
\* same handle.
C26_Witness ==
    /\ rotateType = RotateNone
    /\ logFile = DefaultLog
    /\ Len(served) = 2
    /\ Len(fds) = 1
    /\ Len(fs[<<DefaultLogDir, DefaultLog>>]) = 3
    /\ fs[<<DefaultLogDir, DefaultLog>>][1].id[1] = "old"

\* the rotation type is outside the recognised set
Unrecognized(rt) == rt > RotateSize

\* an unrecognised value is stored as it is, and it is replaced only by the
\* backend building the file destination, by the hourly type
ReplacedByBuilder ==
    /\ (sets' = sets + 1 /\ Unrecognized(rotateType')) =>
           UNCHANGED <<pc, bpc, cpc, writers, logFile, fds, fs, wlog>>
    /\ (Unrecognized(rotateType) /\ rotateType' # rotateType) =>
           \/ sets' = sets + 1
           \/ FileWriterStep /\ rotateType' = RotateHour
    /\ (Unrecognized(rotateType) /\ FileWriterStep) =>
           /\ rotateType' = RotateHour
           /\ logFile' = CalendarName(RotateHour, args.hint[2])

\* C27: a rotation type outside the recognised set is stored as it is and
\* nothing else happens; it is replaced, by the hourly type, only when the
\* backend builds the file destination with the file handler active, and the
\* record processed then goes to the file named after its hour.
C27_InvalidTypeBecomesHourly ==
    [][/\ ReplacedByBuilder
       /\ (Unrecognized(rotateType) /\ FileWriterStep) =>
              /\ writers'[File][1] = "file"
              /\ fds'[writers'[File][2]] = [path |-> <<logDir', logFile'>>, open |-> TRUE]
      ]_vars

\* C28: once a call of Close on a running logger has passed its probe of done,
\* done is eventually closed and the goroutine of the backend has returned,
\* whatever the queue holds and however the producers and the other caller of
\* Close interleave.
C28_CloseShutsDown ==
    \A c \in Closers : (cpc[c] = "send") ~> (done /\ bpc = "exited")

\* C28 witness: the queue was full when Close was called; the backend has
\* written the two jobs ahead of the sentinel, closed done and returned, and a
\* job enqueued behind the sentinel is left in the queue.
C28_Witness ==
    /\ done
    /\ bpc = "exited"
    /\ Len(enq) = ChanCap + 2
    /\ enq[ChanCap + 1] = Nil
    /\ Len(served) = ChanCap
    /\ \E c \in Closers : cpc[c] = "returned"
    /\ writerChan # <<>>

\* the supported tokens of a format list, in its order
IsSupported(f) == f \in logFmtStr
Supported(format) == SelectSeq(format, IsSupported)

\* the rendering of the k-th supported token of the last record built
RenderingAt(k) == Rendered(Supported(built.format)[k], built.level, built.t, built.msg)

\* where it starts in the text, when single spaces separate the renderings
RECURSIVE StartAt(_)
StartAt(k) == IF k = 1 THEN 1 ELSE StartAt(k - 1) + Len(RenderingAt(k - 1)) + 1

\* C29: the text of a record is the renderings of the supported tokens of the
\* format list, in its order, with exactly one space between two of them and
\* nothing else: a token that is not supported adds nothing, a token listed
\* twice is rendered twice.
C29_RecordLayout ==
    LET n == Len(Supported(built.format))
        text == built.text
    IN  /\ n = 0 => text = <<>>
        /\ n > 0 => Len(text) = StartAt(n) + Len(RenderingAt(n)) - 1
        /\ \A k \in 1 .. n :
               /\ SubSeq(text, StartAt(k), StartAt(k) + Len(RenderingAt(k)) - 1) = RenderingAt(k)
               /\ k > 1 => text[StartAt(k) - 1] = " "

\* C29 witness: a record was built from a list that holds the level token
\* twice around a token that is not supported.
C29_Witness ==
    /\ built.format = <<fmtLevel, "thread", fmtLevel>>
    /\ built.level = ERROR
    /\ built.text = <<"[", "ERROR", "]", " ", "[", "ERROR", "]">>

\* the first index from j on whose file, under the rotating name lf, does not
\* exist (a directory holds finitely many files)
RECURSIVE FirstMissing(_, _)
FirstMissing(lf, j) ==
    IF IndexedPath(lf, j) \notin DOMAIN fs THEN j ELSE FirstMissing(lf, j + 1)

\* C30: the probe of a logger with no file name recorded ends, whatever the
\* directory holds, the size of the record and the ceiling (smaller than the
\* record, zero or negative): the index it selects is at most the first index
\* whose file does not exist, and it is reached by passing only files that
\* exist.
C30_ProbeStops ==
    [][(FileWriterStep /\ rotateType' = RotateSize /\ logFile = NoName) =>
          /\ logFile'[1] = "rotating"
          /\ logFile'[3] \in 0 .. FirstMissing(logFile', 0)
          /\ logFile'[3] <= Cardinality(DOMAIN fs)
          /\ \A j \in 0 .. (logFile'[3] - 1) : IndexedPath(logFile', j) \in DOMAIN fs
      ]_vars

\* C30 witness: under a negative ceiling no file takes the record; the probe
\* passed the two files of an earlier run and stopped at index 2, the first
\* missing one, which the backend created.
C30_Witness ==
    /\ rotateSize < 0
    /\ bpc = "write"
    /\ Len(served) = 0
    /\ logFile[1] = "rotating"
    /\ logFile[3] = MaxLeftover
    /\ Cardinality(DOMAIN fs) = MaxLeftover + 1
    /\ fs[<<DefaultLogDir, logFile>>] = <<>>

====
